---- MODULE Spec2Model ----
(***************************************************************************)
(* Model of remove_white_background.py: the function                       *)
(* remove_white_background(input_path, output_path, threshold) and the     *)
(* __main__ entry point that calls it inside try/except.                   *)
(*                                                                         *)
(* An image is one row of pixels.  A file on disk is a record              *)
(*   [kind, mode, size, bytes]                                             *)
(* where kind is "absent", "garbage" (no image header can be identified,   *)
(* an empty file included) or "image" (a header giving mode and size,      *)
(* followed by the sample bytes, pixel after pixel, band after band).  An  *)
(* image file whose bytes are shorter than size * bands is truncated: its  *)
(* header is read by Image.open, its pixel data fails to load.             *)
(***************************************************************************)
EXTENDS Integers, Sequences, FiniteSets, TLC

VARIABLES
    fs,            \* the file system: path -> file
    pc,            \* the statement the program is at
    input_path, output_path, threshold,   \* arguments of the call
    img,           \* line 19/23: the PIL image (lazily loaded)
    data,          \* line 26: the H x W x 4 array, one row of pixels
    white_pixels,  \* lines 30-32: the boolean mask
    new_img,       \* line 38
    inHandle,      \* file object behind Image.open: "none", "open", "closed"
    outHandle,     \* file object behind Image.save: "none", "open", "closed"
    created,       \* save created the output file (it did not exist before)
    err,           \* the exception in flight, "" if none
    stdout,        \* the lines printed by this run
    crashed,       \* an exception escaped __main__
    pre,           \* the file system when the call started
    runs           \* number of runs of the script so far

vars == <<fs, pc, input_path, output_path, threshold, img, data, white_pixels,
          new_img, inHandle, outHandle, created, err, stdout, crashed, pre,
          runs>>

\* ---------------------------------------------------------------- bounds
MaxPixels == 2
MaxRuns == 2

\* ------------------------------------------------------------ input sets
Paths == {"in", "out"}
ChanVals == {240, 255}
AlphaVals == {0, 128, 255}
Thresholds == {-1, 240, 255, 256}
Modes == {"L", "RGB", "RGBA"}

\* ------------------------------------------------------- pure operators
Bands(mode) == IF mode = "L" THEN 1 ELSE IF mode = "RGB" THEN 3 ELSE 4

Absent == [kind |-> "absent", mode |-> "", size |-> 0, bytes |-> <<>>]
Garbage == [kind |-> "garbage", mode |-> "", size |-> 0, bytes |-> <<>>]
NoImage == [mode |-> "", size |-> 0, loaded |-> FALSE, px |-> <<>>]

RECURSIVE Flatten(_)
Flatten(rows) ==
    IF rows = <<>> THEN <<>> ELSE Head(rows) \o Flatten(Tail(rows))

\* The sample bytes every pixel of the file needs are present.
Complete(f) == Len(f.bytes) = f.size * Bands(f.mode)

\* ImageFile.load: the pixels of a file, one tuple of Bands(mode) samples each.
LoadPixels(f) ==
    [i \in 1..f.size |->
        SubSeq(f.bytes, (i - 1) * Bands(f.mode) + 1, i * Bands(f.mode))]

\* Image.convert('RGBA') on one pixel of mode L, RGB or RGBA.
ToRGBA(mode, p) ==
    IF mode = "L" THEN <<p[1], p[1], p[1], 255>>
    ELSE IF mode = "RGB" THEN <<p[1], p[2], p[3], 255>>
    ELSE p

\* Variants of IsWhite: | in place of &, >= in place of >, and the threshold
\* cast to the array's uint8 before the comparison.
IsWhiteAny(p, t) == (p[1] > t) \/ (p[2] > t) \/ (p[3] > t)

IsWhiteGE(p, t) == (p[1] >= t) /\ (p[2] >= t) /\ (p[3] >= t)

IsWhiteWrapped(p, t) ==
    (p[1] > t % 256) /\ (p[2] > t % 256) /\ (p[3] > t % 256)

\* white_pixels of lines 30-32, for one pixel.
IsWhite(p, t) == (p[1] > t) /\ (p[2] > t) /\ (p[3] > t)

\* Variants of MaskPixel: data[white_pixels] = 0 (the whole pixel), and
\* data[:, :, 3] = where(white_pixels, 0, 255).
MaskPixelAll(p, t) == IF IsWhite(p, t) THEN <<0, 0, 0, 0>> ELSE p

MaskPixelBinary(p, t) ==
    IF IsWhite(p, t) THEN <<p[1], p[2], p[3], 0>>
    ELSE <<p[1], p[2], p[3], 255>>

\* data[white_pixels, 3] = 0, for one pixel.
MaskPixel(p, t) == IF IsWhite(p, t) THEN <<p[1], p[2], p[3], 0>> ELSE p

\* Variant of EncodePNG: the bands written in B, G, R, A order.
EncodePNGSwapped(im) ==
    [kind |-> "image", mode |-> "RGBA", size |-> im.size,
     bytes |-> Flatten([i \in 1..im.size |->
                 <<im.px[i][3], im.px[i][2], im.px[i][1], im.px[i][4]>>])]

\* new_img.save(output_path, 'PNG'): the complete file that save produces.
EncodePNG(im) ==
    [kind |-> "image", mode |-> "RGBA", size |-> im.size,
     bytes |-> Flatten(im.px)]

\* What a failed write can leave behind of the file full: nothing but the
\* opened (emptied) file, or the header and the data of the first k pixels,
\* k less than the size.
PartialFiles(full) ==
    {Garbage} \cup
    {[full EXCEPT !.bytes = SubSeq(full.bytes, 1, k * Bands(full.mode))] :
        k \in 0..(full.size - 1)}

\* ---------------------------------------------------------- image files
PixelsOf(mode) ==
    IF mode = "L" THEN {<<v>> : v \in ChanVals}
    ELSE IF mode = "RGB" THEN
        {<<r, g, b>> : r \in ChanVals, g \in ChanVals, b \in ChanVals}
    ELSE {<<r, g, b, a>> : r \in ChanVals, g \in ChanVals, b \in ChanVals,
                           a \in AlphaVals}

RowsOf(mode) ==
    UNION {[1..n -> PixelsOf(mode)] : n \in 1..MaxPixels}

FilesOf(mode) ==
    {[kind |-> "image", mode |-> mode, size |-> Len(row),
      bytes |-> Flatten(row)] : row \in RowsOf(mode)}

ImageFiles == UNION {FilesOf(m) : m \in Modes}

\* A valid image that lost its last byte.
TruncatedFiles ==
    {[f EXCEPT !.bytes = SubSeq(f.bytes, 1, Len(f.bytes) - 1)] :
        f \in {g \in ImageFiles : g.size = 1}}

\* A file left at the output path by an earlier, unrelated run.
Stale ==
    [kind |-> "image", mode |-> "RGBA", size |-> 1, bytes |-> <<7, 7, 7, 7>>]

InputFiles == ImageFiles \cup TruncatedFiles \cup {Absent, Garbage}

\* The exception classes the calls of the function can raise; all of them
\* derive from Exception.
DecodeErrors ==
    {"FileNotFoundError", "UnidentifiedImageError",
     "OSError: image file is truncated"}
ProcessingErrors == {"MemoryError"}
EncodeErrors == {"PermissionError", "OSError: No space left on device"}
ExceptionClasses == DecodeErrors \cup ProcessingErrors \cup EncodeErrors

\* Variant of Caught: except OSError.
CaughtOSError(e) == e \in ExceptionClasses \ {"MemoryError"}

\* `except Exception as e` of line 52.
Caught(e) == e \in ExceptionClasses

\* ---------------------------------------------------------------- state
Init ==
    /\ \E fin \in InputFiles, fout \in {Absent, Stale} :
          fs = [p \in Paths |-> IF p = "in" THEN fin ELSE fout]
    /\ threshold \in Thresholds
    /\ pc = "boot"
    /\ input_path = "" /\ output_path = ""
    /\ pre = fs
    /\ runs = 0
    /\ img = NoImage /\ data = <<>> /\ white_pixels = <<>> /\ new_img = NoImage
    /\ inHandle = "none" /\ outHandle = "none" /\ created = FALSE
    /\ err = "" /\ stdout = <<>> /\ crashed = FALSE

\* A new process: nothing of the previous run survives but the files.
Call(ip, op) ==
    /\ input_path' = ip /\ output_path' = op
    /\ pc' = "open"
    /\ pre' = fs
    /\ runs' = runs + 1
    /\ img' = NoImage /\ data' = <<>> /\ white_pixels' = <<>>
    /\ new_img' = NoImage
    /\ inHandle' = "none" /\ outHandle' = "none" /\ created' = FALSE
    /\ err' = "" /\ stdout' = <<>> /\ crashed' = FALSE
    /\ UNCHANGED <<fs, threshold>>

\* __main__, lines 44-50: the script calls the function on its input file.
StartMain ==
    /\ pc = "boot"
    /\ Call("in", "out")

\* The script is run again, on the output the previous run saved.
StartAgain ==
    /\ pc = "exit"
    /\ err = ""
    /\ runs < MaxRuns
    /\ \E op \in Paths : Call(output_path, op)

Raise(e) ==
    /\ err' = e
    /\ pc' = "raised"

\* Variant of Open: a failure to open is reported and the function returns.
OpenSwallow ==
    /\ pc = "open"
    /\ LET f == fs[input_path] IN
         \/ /\ f.kind # "image"
            /\ stdout' = Append(stdout, <<"Error:", "cannot open">>)
            /\ pc' = "returned"
            /\ UNCHANGED <<img, inHandle>>
         \/ /\ f.kind = "image"
            /\ img' = [mode |-> f.mode, size |-> f.size, loaded |-> FALSE,
                       px |-> <<>>]
            /\ inHandle' = "open"
            /\ pc' = "convert"
            /\ UNCHANGED stdout
    /\ UNCHANGED <<fs, input_path, output_path, threshold, data, white_pixels,
                   new_img, outHandle, created, err, crashed, pre, runs>>

\* Line 19, img = Image.open(input_path): opens the file and reads the
\* header; the pixel data is not read yet.
Open ==
    /\ pc = "open"
    /\ LET f == fs[input_path] IN
         \/ /\ f.kind = "absent"
            /\ Raise("FileNotFoundError")
            /\ UNCHANGED <<img, inHandle>>
         \/ /\ f.kind = "garbage"
            /\ Raise("UnidentifiedImageError")
            /\ inHandle' = "closed"
            /\ UNCHANGED img
         \/ /\ f.kind = "image"
            /\ img' = [mode |-> f.mode, size |-> f.size, loaded |-> FALSE,
                       px |-> <<>>]
            /\ inHandle' = "open"
            /\ pc' = "convert"
            /\ UNCHANGED err
    /\ UNCHANGED <<fs, input_path, output_path, threshold, data, white_pixels,
                   new_img, outHandle, created, stdout, crashed, pre, runs>>

\* Lines 22-23: if img.mode != 'RGBA': img = img.convert('RGBA').
\* convert loads the pixel data; a successful load closes the file, a failed
\* one raises with the file still open.
Convert ==
    /\ pc = "convert"
    /\ LET f == fs[input_path] IN
         IF img.mode # "RGBA"
         THEN IF Complete(f)
              THEN /\ img' = [mode |-> "RGBA", size |-> f.size,
                              loaded |-> TRUE,
                              px |-> [i \in 1..f.size |->
                                        ToRGBA(f.mode, LoadPixels(f)[i])]]
                   /\ inHandle' = "closed"
                   /\ pc' = "array"
                   /\ UNCHANGED err
              ELSE /\ Raise("OSError: image file is truncated")
                   /\ UNCHANGED <<img, inHandle>>
         ELSE /\ pc' = "array"
              /\ UNCHANGED <<img, inHandle, err>>
    /\ UNCHANGED <<fs, input_path, output_path, threshold, data, white_pixels,
                   new_img, outHandle, created, stdout, crashed, pre, runs>>

\* Line 26, data = np.array(img): loads the pixel data if convert did not,
\* then copies it into a new array, which can run out of memory.
ToArray ==
    /\ pc = "array"
    /\ LET f == fs[input_path] IN
         IF ~img.loaded /\ ~Complete(f)
         THEN /\ Raise("OSError: image file is truncated")
              /\ UNCHANGED <<img, inHandle, data>>
         ELSE /\ img' = IF img.loaded THEN img
                        ELSE [img EXCEPT !.loaded = TRUE, !.px = LoadPixels(f)]
              /\ inHandle' = "closed"
              /\ \/ /\ data' = img'.px
                    /\ pc' = "mask"
                    /\ UNCHANGED err
                 \/ /\ Raise("MemoryError")
                    /\ UNCHANGED data
    /\ UNCHANGED <<fs, input_path, output_path, threshold, white_pixels,
                   new_img, outHandle, created, stdout, crashed, pre, runs>>

\* Lines 30-35: white_pixels = (R > t) & (G > t) & (B > t);
\* data[white_pixels, 3] = 0.
Mask ==
    /\ pc = "mask"
    /\ white_pixels' = [i \in 1..Len(data) |-> IsWhite(data[i], threshold)]
    /\ data' = [i \in 1..Len(data) |-> MaskPixel(data[i], threshold)]
    /\ pc' = "fromarray"
    /\ UNCHANGED <<fs, input_path, output_path, threshold, img, new_img,
                   inHandle, outHandle, created, err, stdout, crashed, pre,
                   runs>>

\* Line 38: new_img = Image.fromarray(data, 'RGBA').
FromArray ==
    /\ pc = "fromarray"
    /\ new_img' = [mode |-> "RGBA", size |-> Len(data), loaded |-> TRUE,
                   px |-> data]
    /\ pc' = "save"
    /\ UNCHANGED <<fs, input_path, output_path, threshold, img, data,
                   white_pixels, inHandle, outHandle, created, err, stdout,
                   crashed, pre, runs>>

\* Line 41, first half: save opens output_path for writing, which empties an
\* existing file, or fails and leaves it alone.
SaveOpen ==
    /\ pc = "save"
    /\ \/ /\ Raise("PermissionError")
          /\ UNCHANGED <<fs, outHandle, created>>
       \/ /\ created' = (fs[output_path].kind = "absent")
          /\ fs' = [fs EXCEPT ![output_path] = Garbage]
          /\ outHandle' = "open"
          /\ pc' = "write"
          /\ UNCHANGED err
    /\ UNCHANGED <<input_path, output_path, threshold, img, data,
                   white_pixels, new_img, inHandle, stdout, crashed, pre, runs>>

\* Line 41, second half: save writes the encoded image and closes the file.
\* A write that fails (disk full) closes the file too; what it wrote stays,
\* except that a file save created itself may be removed again.
SaveWrite ==
    /\ pc = "write"
    /\ outHandle' = "closed"
    /\ \/ /\ fs' = [fs EXCEPT ![output_path] = EncodePNG(new_img)]
          /\ pc' = "print"
          /\ UNCHANGED err
       \/ /\ \E left \in PartialFiles(EncodePNG(new_img)) \cup
                          (IF created THEN {Absent} ELSE {}) :
                fs' = [fs EXCEPT ![output_path] = left]
          /\ Raise("OSError: No space left on device")
    /\ UNCHANGED <<input_path, output_path, threshold, img, data,
                   white_pixels, new_img, inHandle, created, stdout, crashed,
                   pre, runs>>

\* Line 42: print(f"Saved transparent image to: {output_path}"), return.
PrintSaved ==
    /\ pc = "print"
    /\ stdout' = Append(stdout, <<"Saved transparent image to:", output_path>>)
    /\ pc' = "returned"
    /\ UNCHANGED <<fs, input_path, output_path, threshold, img, data,
                   white_pixels, new_img, inHandle, outHandle, created, err,
                   crashed, pre, runs>>

\* Line 51: the call returned.
MainSuccess ==
    /\ pc = "returned"
    /\ stdout' = Append(stdout, <<"Successfully removed white background!">>)
    /\ pc' = "exit"
    /\ UNCHANGED <<fs, input_path, output_path, threshold, img, data,
                   white_pixels, new_img, inHandle, outHandle, created, err,
                   crashed, pre, runs>>

\* Lines 52-53: except Exception as e: print(f"Error: {e}"); an exception
\* the clause does not catch ends the process with a traceback.
MainExcept ==
    /\ pc = "raised"
    /\ IF Caught(err)
       THEN /\ stdout' = Append(stdout, <<"Error:", err>>)
            /\ UNCHANGED crashed
       ELSE /\ crashed' = TRUE
            /\ UNCHANGED stdout
    /\ pc' = "exit"
    /\ UNCHANGED <<fs, input_path, output_path, threshold, img, data,
                   white_pixels, new_img, inHandle, outHandle, created, err,
                   pre, runs>>

Step ==
    \/ Open \/ Convert \/ ToArray \/ Mask \/ FromArray
    \/ SaveOpen \/ SaveWrite \/ PrintSaved \/ MainSuccess \/ MainExcept

\* One run of the script.
Next == StartMain \/ Step

Spec == Init /\ [][Next]_vars

\* The script run again and again, each time on the output of the run before;
\* the first run finds no file at its output path.
InitChain == Init /\ fs["out"] = Absent

NextChain == StartMain \/ StartAgain \/ Step

SpecChain == InitChain /\ [][NextChain]_vars


\* =================================================================
\* Properties.  The input of a call is the file pre[input_path], read with
\* the band layout its header names; the output is the file fs[output_path],
\* four bytes per pixel.
\* =================================================================
InFile == pre[input_path]
OutFile == fs[output_path]

NBands(f) == IF f.mode = "L" THEN 1 ELSE IF f.mode = "RGB" THEN 3 ELSE 4

\* The file is an image with all its pixel data.
Whole(f) == f.kind = "image" /\ Len(f.bytes) = f.size * NBands(f)

InPix == 1..InFile.size

\* Colour sample c (1 = R, 2 = G, 3 = B) of input pixel i; a grey pixel has its
\* one sample for all three.
InC(i, c) ==
    IF InFile.mode = "L" THEN InFile.bytes[i]
    ELSE InFile.bytes[(i - 1) * NBands(InFile) + c]

\* The alpha of input pixel i once the image has four bands: its own for an
\* RGBA input, 255 for an input without alpha.
InA(i) == IF InFile.mode = "RGBA" THEN InFile.bytes[(i - 1) * 4 + 4] ELSE 255

OutC(i, c) == OutFile.bytes[(i - 1) * 4 + c]
OutA(i) == OutFile.bytes[(i - 1) * 4 + 4]

\* Input pixel i is background for the threshold of the call.
Background(i) ==
    InC(i, 1) > threshold /\ InC(i, 2) > threshold /\ InC(i, 3) > threshold

Returned == pc = "returned"

\* C1 (as stated): after a successful call every output pixel has alpha 0 iff
\* its input R, G and B are all greater than threshold, and alpha 255
\* otherwise, whatever alpha the input had.
C1_AlphaZeroOr255 ==
    Returned =>
        \A i \in InPix : OutA(i) = IF Background(i) THEN 0 ELSE 255

\* C1 (amended): after a successful call every output pixel has alpha 0 if its
\* input R, G and B are all greater than threshold; otherwise it has alpha 255
\* when the input has no alpha channel (L, RGB) and its input alpha when the
\* input is RGBA.
C1_AlphaMask ==
    Returned =>
        \A i \in InPix : OutA(i) = IF Background(i) THEN 0 ELSE InA(i)

C1_Witness ==
    /\ Returned
    /\ InFile.mode = "RGB"
    /\ \E i, j \in InPix :
          Background(i) /\ OutA(i) = 0 /\ ~Background(j) /\ OutA(j) = 255

\* C2: after a successful call the R, G and B of every output pixel equal the
\* R, G and B of the input pixel, background or not; and the masking step
\* leaves the R, G and B of the array as they were.
C2_ColourPreserved ==
    /\ Returned =>
          /\ OutFile.size = InFile.size
          /\ \A i \in InPix : \A c \in 1..3 : OutC(i, c) = InC(i, c)
    /\ pc = "fromarray" =>
          \A i \in InPix : \A c \in 1..3 : data[i][c] = img.px[i][c]

C2_Witness ==
    /\ Returned
    /\ \E i \in InPix :
          /\ Background(i) /\ OutA(i) = 0
          /\ OutC(i, 1) = 255 /\ OutC(i, 2) = 240 /\ OutC(i, 3) = 255

\* C3: when the call has failed, the file at output_path is what it was
\* before the call (absent included) or a complete encoded image.
C3_NoPartialWrite ==
    (pc = "raised") => (OutFile = pre[output_path] \/ Whole(OutFile))

\* C4: when the file at input_path is absent or cannot be decoded, the call
\* never gets past loading the pixels: it ends by raising a decode error to
\* its caller, prints nothing itself, and every file is as it was.
Undecodable(f) == ~Whole(f)

C4_DecodeFailure ==
    (pc # "boot" /\ Undecodable(InFile)) =>
        /\ fs = pre
        /\ pc \in {"open", "convert", "array", "raised", "exit"}
        /\ outHandle = "none"
        /\ (pc \in {"raised", "exit"} => err \in DecodeErrors)
        /\ (pc # "exit" => stdout = <<>>)

C4_Witness ==
    /\ pc = "raised"
    /\ InFile.kind = "absent"
    /\ err = "FileNotFoundError"
    /\ OutFile = Absent

\* C5: when the call returns or raises, neither the input file nor the
\* output file is still open.
C5_HandlesReleased ==
    (pc \in {"returned", "raised"}) =>
        (inHandle # "open" /\ outHandle # "open")

\* C6: whatever the call raises, the entry point catches it and the run ends
\* having printed the error with its description and no success line, without
\* a crash; when the call returns, the run ends having printed the
\* confirmation with the output path and no error line.
C6_OneOutcome ==
    /\ ~crashed
    /\ (pc = "exit" /\ err # "") => stdout = << <<"Error:", err>> >>
    /\ (pc = "exit" /\ err = "") =>
          stdout = << <<"Saved transparent image to:", output_path>>,
                      <<"Successfully removed white background!">> >>

C6_Witness ==
    /\ pc = "exit"
    /\ err = "MemoryError"
    /\ stdout = << <<"Error:", "MemoryError">> >>

\* C7: a pixel with at least one of R, G, B less than or equal to threshold
\* (all three equal to threshold included) is not in the mask and comes out
\* with the alpha it had going in (255 for an input without alpha).
C7_StrictComparison ==
    Returned =>
        \A i \in InPix :
            (\E c \in 1..3 : InC(i, c) <= threshold) =>
                (~white_pixels[i] /\ OutA(i) = InA(i))

C7_Witness ==
    /\ Returned
    /\ InFile.mode = "RGB"
    /\ \E i \in InPix :
          /\ \A c \in 1..3 : InC(i, c) = threshold
          /\ OutA(i) = 255

\* C8: a successful run on the file the run before it saved writes that same
\* image again, and its mask holds only pixels whose alpha is 0 already.
C8_Idempotent ==
    (Returned /\ runs > 1) =>
        /\ OutFile = InFile
        /\ \A i \in InPix : white_pixels[i] => InA(i) = 0

C8_Witness ==
    /\ Returned /\ runs > 1
    /\ \E i, j \in InPix :
          white_pixels[i] /\ ~white_pixels[j] /\ InA(j) = 128 /\ OutA(j) = 128
                          /\ InC(j, 1) # InC(j, 3)

\* C9: with a threshold of 255 or more no pixel is in the mask and every
\* alpha is the one going in; with a threshold below 0 every pixel is in the
\* mask and every output alpha is 0.
C9_DegenerateThreshold ==
    Returned =>
        /\ threshold >= 255 =>
              \A i \in InPix : ~white_pixels[i] /\ OutA(i) = InA(i)
        /\ threshold < 0 =>
              \A i \in InPix : white_pixels[i] /\ OutA(i) = 0

C9_Witness ==
    /\ Returned
    /\ threshold = 256
    /\ \E i \in InPix :
          (\A c \in 1..3 : InC(i, c) = 255) /\ OutA(i) = 255

\* C10: for an RGBA input no alpha goes up: a pixel outside the mask keeps its
\* input alpha, a pixel in the mask gets 0.
C10_AlphaNeverRaised ==
    (Returned /\ InFile.mode = "RGBA") =>
        \A i \in InPix :
            /\ OutA(i) <= InFile.bytes[(i - 1) * 4 + 4]
            /\ ~Background(i) => OutA(i) = InFile.bytes[(i - 1) * 4 + 4]
            /\ Background(i) => OutA(i) = 0

C10_Witness ==
    /\ Returned
    /\ InFile.mode = "RGBA"
    /\ \E i, j \in InPix :
          /\ ~Background(i) /\ InFile.bytes[(i - 1) * 4 + 4] = 128
          /\ OutA(i) = 128
          /\ ~Background(j) /\ InFile.bytes[(j - 1) * 4 + 4] = 0
          /\ OutA(j) = 0

====
